---- MODULE Spec2Model ----
(***************************************************************************)
(* Model of database_server.py: the wire codec (ProtocolHandler), the      *)
(* command table and store (Server) and the per-connection request loop    *)
(* (Server.connection_handler) running as gevent greenlets.                *)
(*                                                                         *)
(* A byte is a one-character string; a byte string or a text is a sequence  *)
(* of such characters.  All characters used are ASCII, on which            *)
(* encode('utf-8') and decode('utf-8') change nothing.                     *)
(***************************************************************************)
EXTENDS Integers, Sequences, FiniteSets, TLC

VARIABLES
    kv,       \* self._kv: the store
    inbuf,    \* per connection: the bytes sent by the client and not read yet
    eof,      \* per connection: the client has closed its side
    pc,       \* per connection: where connection_handler is
    request,  \* per connection: data, the request decoded last
    resp,     \* per connection: resp, the response to write
    exc,      \* per connection: the exception that ended the handler
    sent,     \* per connection: the response written last, until the client takes it
    nsent,    \* number of requests sent so far
    ideal,    \* what the requests issued so far should have left in the store
    kv0,      \* the store the run began with
    race,     \* the key and value of the two racing requests
    ndecoded, \* per connection: how many requests handle_request has returned
    nwritten, \* per connection: how many responses write_response has written
    val,      \* codec: the value to encode
    wire,     \* codec: the bytes on the wire
    calls,    \* codec: the byte strings passed to socket_file.write, in order
    decoded,  \* codec: the outcome of decoding them
    phase     \* codec: what has been done so far

vars == <<kv, inbuf, eof, pc, request, resp, exc, sent, nsent, ideal, kv0, race,
          ndecoded, nwritten, val, wire, calls, decoded, phase>>

serverVars == <<kv, inbuf, eof, pc, request, resp, exc, sent, nsent, ideal, kv0, race,
                ndecoded, nwritten>>
codecVars == <<val, wire, calls, decoded, phase>>

----------------------------------------------------------------------------
(* Python values.  Every value is a record of the same shape so that any   *)
(* two values can be compared: t is the Python type, s the characters of a *)
(* str / bytes / Error message, n the number of an int, items the elements *)
(* of a list (or the alternating key, value entries of a dict, in          *)
(* insertion order).                                                       *)

Value(t, s, n, items) == [t |-> t, s |-> s, n |-> n, items |-> items]

Str(s) == Value("str", s, 0, <<>>)
Bytes(s) == Value("bytes", s, 0, <<>>)
Integer(n) == Value("int", <<>>, n, <<>>)
Error(message) == Value("Error", message, 0, <<>>)
List(items) == Value("list", <<>>, 0, items)
Dict(items) == Value("dict", <<>>, 0, items)
None == Value("None", <<>>, 0, <<>>)
\* a local variable that has not been assigned yet
Unset == Value("unset", <<>>, 0, <<>>)

\* hash(v) succeeds: list and dict are unhashable, the rest (an Error is a
\* namedtuple of one str) is hashable
Hashable(v) == v.t \notin {"list", "dict"}

----------------------------------------------------------------------------
(* Characters and text helpers *)

CR == "\r"
LF == "\n"
CRLF == <<CR, LF>>

Digits == <<"0", "1", "2", "3", "4", "5", "6", "7", "8", "9">>

LowerLetters == <<"a", "b", "c", "d", "e", "f", "g", "h", "i", "j", "k", "l", "m",
                  "n", "o", "p", "q", "r", "s", "t", "u", "v", "w", "x", "y", "z">>
UpperLetters == <<"A", "B", "C", "D", "E", "F", "G", "H", "I", "J", "K", "L", "M",
                  "N", "O", "P", "Q", "R", "S", "T", "U", "V", "W", "X", "Y", "Z">>

IndexIn(c, seq) ==
    IF \E i \in 1..Len(seq) : seq[i] = c
    THEN CHOOSE i \in 1..Len(seq) : seq[i] = c
    ELSE 0

\* str.upper() / bytes.upper(), character by character
UpperChar(c) ==
    IF IndexIn(c, LowerLetters) > 0 THEN UpperLetters[IndexIn(c, LowerLetters)] ELSE c

upper(s) == [i \in 1..Len(s) |-> UpperChar(s[i])]

\* the characters str.split() / bytes.split() / int() treat as whitespace
IsSpace(c) == c \in {" ", "\t", "\n", "\r", "\f"}

Drop(s, k) == IF k >= Len(s) THEN <<>> ELSE SubSeq(s, k + 1, Len(s))
Take(s, k) == IF k >= Len(s) THEN s ELSE SubSeq(s, 1, k)

RECURSIVE rstrip(_)
\* str.rstrip('\r\n'): drops every trailing CR and LF
rstrip(s) ==
    IF Len(s) > 0 /\ s[Len(s)] \in {CR, LF} THEN rstrip(SubSeq(s, 1, Len(s) - 1)) ELSE s

RECURSIVE lstripSpace(_)
lstripSpace(s) == IF Len(s) > 0 /\ IsSpace(s[1]) THEN lstripSpace(Tail(s)) ELSE s

RECURSIVE rstripSpace(_)
rstripSpace(s) ==
    IF Len(s) > 0 /\ IsSpace(s[Len(s)]) THEN rstripSpace(SubSeq(s, 1, Len(s) - 1)) ELSE s

\* s.split(maxsplit=1) in the place of s.split(): the first token, and the
\* rest of the line as one more token
split_once(s) ==
    LET t == lstripSpace(s) IN
    IF t = <<>> THEN <<>>
    ELSE LET n == IF \E i \in 1..Len(t) : IsSpace(t[i])
                  THEN (CHOOSE i \in 1..Len(t) :
                            IsSpace(t[i]) /\ \A j \in 1..(i - 1) : ~IsSpace(t[j])) - 1
                  ELSE Len(t)
             more == rstripSpace(lstripSpace(Drop(t, n)))
         IN IF more = <<>> THEN <<Take(t, n)>> ELSE <<Take(t, n), more>>

RECURSIVE split(_)
\* s.split(): the maximal runs of non-whitespace characters of s, in order
split(s) ==
    LET t == lstripSpace(s) IN
    IF t = <<>> THEN <<>>
    ELSE LET n == IF \E i \in 1..Len(t) : IsSpace(t[i])
                  THEN (CHOOSE i \in 1..Len(t) :
                            IsSpace(t[i]) /\ \A j \in 1..(i - 1) : ~IsSpace(t[j])) - 1
                  ELSE Len(t)
         IN <<Take(t, n)>> \o split(Drop(t, n))

RECURSIVE UnsignedText(_)
UnsignedText(n) ==
    IF n < 10 THEN <<Digits[n + 1]>> ELSE UnsignedText(n \div 10) \o <<Digits[(n % 10) + 1]>>

\* f'{n}' of an int
IntText(n) == IF n < 0 THEN <<"-">> \o UnsignedText(-n) ELSE UnsignedText(n)

RECURSIVE UnsignedOf(_)
UnsignedOf(s) ==
    IF Len(s) = 1 THEN IndexIn(s[1], Digits) - 1
    ELSE 10 * UnsignedOf(SubSeq(s, 1, Len(s) - 1)) + (IndexIn(s[Len(s)], Digits) - 1)

AllDigits(s) == Len(s) > 0 /\ \A i \in 1..Len(s) : IndexIn(s[i], Digits) > 0

\* int(text): surrounding whitespace is ignored, one sign is allowed, the
\* rest must be decimal digits; anything else raises ValueError
IntBody(s) == rstripSpace(lstripSpace(s))
IntParses(s) ==
    LET b == IntBody(s) IN
    IF Len(b) > 0 /\ b[1] \in {"-", "+"} THEN AllDigits(Tail(b)) ELSE AllDigits(b)
IntOf(s) ==
    LET b == IntBody(s) IN
    IF b[1] = "-" THEN 0 - UnsignedOf(Tail(b))
    ELSE IF b[1] = "+" THEN UnsignedOf(Tail(b))
    ELSE UnsignedOf(b)

\* repr(b'...') as f'{data}' renders a bytes object: b, a quote, the bytes
\* with control characters, backslash and the quote escaped, a quote (the
\* bytes used here are printable ASCII, CR, LF or tab)
ReprChar(c, quote) ==
    IF c = CR THEN <<"\\", "r">>
    ELSE IF c = LF THEN <<"\\", "n">>
    ELSE IF c = "\t" THEN <<"\\", "t">>
    ELSE IF c = "\\" THEN <<"\\", "\\">>
    ELSE IF c = quote THEN <<"\\", c>>
    ELSE <<c>>

RECURSIVE ReprBody(_, _)
ReprBody(s, quote) ==
    IF s = <<>> THEN <<>> ELSE ReprChar(s[1], quote) \o ReprBody(Tail(s), quote)

BytesRepr(s) ==
    LET has1 == \E i \in 1..Len(s) : s[i] = "'"
        has2 == \E i \in 1..Len(s) : s[i] = "\""
        quote == IF has1 /\ ~has2 THEN "\"" ELSE "'"
    IN <<"b", quote>> \o ReprBody(s, quote) \o <<quote>>

\* sub occurs in s as a contiguous run
Contains(s, sub) ==
    \E i \in 1..(Len(s) - Len(sub) + 1) : SubSeq(s, i, i + Len(sub) - 1) = sub

----------------------------------------------------------------------------
(* The socket file.  buf holds the bytes that have arrived and were not    *)
(* read yet; atEnd says that the peer has closed its side, so that a read  *)
(* past the end of buf returns what is left instead of waiting.            *)

HasLine(buf) == \E i \in 1..Len(buf) : buf[i] = LF

FirstLF(buf) == CHOOSE i \in 1..Len(buf) : buf[i] = LF /\ \A j \in 1..(i - 1) : buf[j] # LF

\* socket_file.readline(): up to and including the first LF, or everything
\* that is left when the stream ends before one
readline(buf) == IF HasLine(buf) THEN Take(buf, FirstLF(buf)) ELSE buf

\* socket_file.read(n): n bytes, fewer at the end of the stream; a negative
\* n reads to the end of the stream
read(buf, n) == IF n < 0 THEN buf ELSE Take(buf, n)

\* the greenlet waits in readline() / read(n) for bytes that are not there yet
LineBlocks(buf, atEnd) == ~atEnd /\ ~HasLine(buf)
ReadBlocks(buf, n, atEnd) == ~atEnd /\ (n < 0 \/ Len(buf) < n)

\* The outcome of decoding: k is "ok" (v is the value, rest the bytes left
\* in the stream), "block" (the bytes have not all arrived) or the name of
\* the exception raised (v is its message)
Result(k, v, rest) == [k |-> k, v |-> v, rest |-> rest]
Raise(k, message) == Result(k, Str(message), <<>>)
Block == Result("block", Unset, <<>>)

BadRequestText == <<"b", "a", "d", " ", "r", "e", "q", "u", "e", "s", "t">>

handle_simple_string(buf, atEnd) ==
    IF LineBlocks(buf, atEnd) THEN Block
    ELSE LET line == readline(buf)
         IN Result("ok", Str(rstrip(line)), Drop(buf, Len(line)))

handle_error(buf, atEnd) ==
    IF LineBlocks(buf, atEnd) THEN Block
    ELSE LET line == readline(buf)
         IN Result("ok", Error(rstrip(line)), Drop(buf, Len(line)))

handle_integer(buf, atEnd) ==
    IF LineBlocks(buf, atEnd) THEN Block
    ELSE LET line == readline(buf)
             text == rstrip(line)
         IN IF IntParses(text)
            THEN Result("ok", Integer(IntOf(text)), Drop(buf, Len(line)))
            ELSE Raise("ValueError", text)

\* data[:-2]
DropLast2(s) == IF Len(s) <= 2 THEN <<>> ELSE SubSeq(s, 1, Len(s) - 2)

handle_string(buf, atEnd) ==
    LET head == handle_integer(buf, atEnd) IN
    IF head.k # "ok" THEN head
    ELSE IF head.v.n = -1 THEN Result("ok", None, head.rest)
    ELSE LET length == head.v.n + 2 IN
         IF ReadBlocks(head.rest, length, atEnd) THEN Block
         ELSE LET chunk == read(head.rest, length)
              IN Result("ok", Bytes(DropLast2(chunk)), Drop(head.rest, Len(chunk)))

RECURSIVE DictPut(_, _, _, _)
\* d[k] = v on the entries of a dict, from entry i on: an existing key keeps
\* its place and takes the new value, a new key goes to the end
DictPut(items, k, v, i) ==
    IF i > Len(items) THEN items \o <<k, v>>
    ELSE IF items[i] = k THEN [items EXCEPT ![i + 1] = v]
    ELSE DictPut(items, k, v, i + 2)

RECURSIVE DictOfPairs(_, _)
\* dict(zip(elements[::2], elements[1::2])) added to the entries in acc
DictOfPairs(elements, acc) ==
    IF Len(elements) < 2 THEN acc
    ELSE DictOfPairs(Drop(elements, 2), DictPut(acc, elements[1], elements[2], 1))

RECURSIVE handle_request(_, _)
RECURSIVE ReadElements(_, _, _, _)
\* [self.handle_request(socket_file) for _ in range(n)], the elements
\* decoded so far in acc; the first exception ends it
ReadElements(buf, n, atEnd, acc) ==
    IF n <= 0 THEN Result("ok", List(acc), buf)
    ELSE LET r == handle_request(buf, atEnd) IN
         IF r.k # "ok" THEN r
         ELSE ReadElements(r.rest, n - 1, atEnd, Append(acc, r.v))

handle_array(buf, atEnd) ==
    LET head == handle_integer(buf, atEnd) IN
    IF head.k # "ok" THEN head
    ELSE ReadElements(head.rest, head.v.n, atEnd, <<>>)

handle_dict(buf, atEnd) ==
    LET head == handle_integer(buf, atEnd) IN
    IF head.k # "ok" THEN head
    ELSE LET r == ReadElements(head.rest, head.v.n * 2, atEnd, <<>>) IN
         IF r.k # "ok" THEN r
         ELSE LET elements == r.v.items IN
              IF \E i \in 1..Len(elements) : i % 2 = 1 /\ ~Hashable(elements[i])
              THEN Raise("TypeError", <<>>)
              ELSE Result("ok", Dict(DictOfPairs(elements, <<>>)), r.rest)

\* self.handlers: the tag bytes that have a handler
handlers == {"+", "-", ":", "$", "*", "%"}

handle_request(buf, atEnd) ==
    IF buf = <<>>
    THEN IF atEnd THEN Raise("Disconnect", <<>>) ELSE Block
    ELSE LET first_byte == buf[1]
             rest == Tail(buf)
         IN IF first_byte \notin handlers THEN Raise("CommandError", BadRequestText)
            ELSE CASE first_byte = "+" -> handle_simple_string(rest, atEnd)
                   [] first_byte = "-" -> handle_error(rest, atEnd)
                   [] first_byte = ":" -> handle_integer(rest, atEnd)
                   [] first_byte = "$" -> handle_string(rest, atEnd)
                   [] first_byte = "*" -> handle_array(rest, atEnd)
                   [] first_byte = "%" -> handle_dict(rest, atEnd)

----------------------------------------------------------------------------
(* The encoder.  The outcome is k = "ok" with the bytes written to the     *)
(* private buffer in out, or k = "CommandError" with the bytes written     *)
(* before the exception.                                                   *)

Written(k, out) == [k |-> k, out |-> out]

\* f'{Error.message}': Error is the namedtuple class, so this renders the
\* class's field descriptor, whatever the message of the value is
ErrorMessageText ==
    <<"_", "t", "u", "p", "l", "e", "g", "e", "t", "t", "e", "r", "(", "0", ",", " ",
      "'", "A", "l", "i", "a", "s", " ", "f", "o", "r", " ", "f", "i", "e", "l", "d",
      " ", "n", "u", "m", "b", "e", "r", " ", "0", "'", ")">>

RECURSIVE _write(_)
RECURSIVE WriteItems(_, _)
\* for item in data: self._write(buf, item), after the bytes in out
WriteItems(items, out) ==
    IF items = <<>> THEN Written("ok", out)
    ELSE LET w == _write(items[1]) IN
         IF w.k # "ok" THEN Written(w.k, out \o w.out)
         ELSE WriteItems(Tail(items), out \o w.out)

_write(data) ==
    CASE data.t = "str" -> Written("ok", <<"+">> \o data.s \o CRLF)
      [] data.t = "bytes" ->
            Written("ok", <<"$">> \o IntText(Len(data.s)) \o CRLF \o BytesRepr(data.s) \o CRLF)
      [] data.t = "int" -> Written("ok", <<":">> \o IntText(data.n) \o CRLF)
      [] data.t = "Error" -> Written("ok", <<"-">> \o ErrorMessageText \o CRLF)
      [] data.t = "list" ->
            WriteItems(data.items, <<"*">> \o IntText(Len(data.items)) \o CRLF)
      [] data.t = "dict" ->
            WriteItems(data.items, <<"%", "%">> \o IntText(Len(data.items) \div 2) \o CRLF)
      [] data.t = "None" -> Written("ok", <<"$", "-", "1">> \o CRLF)
      [] OTHER -> Written("CommandError", <<>>)

----------------------------------------------------------------------------
(* The store and its commands.  A store is a function from the keys        *)
(* present to their values.  The outcome of a command is k = "ok" with the *)
(* value returned in resp, or the name of the exception raised (resp its   *)
(* message), and in both cases the store it leaves in kv.                  *)

Outcome(k, r, store) == [k |-> k, resp |-> r, kv |-> store]

\* self._kv.get(key)
Lookup(store, key) == IF key \in DOMAIN store THEN store[key] ELSE None

\* self._kv[key] = value
Put(store, key, value) ==
    [k \in DOMAIN store \cup {key} |-> IF k = key THEN value ELSE store[k]]

\* del self._kv[key]
Remove(store, key) == [k \in DOMAIN store \ {key} |-> store[k]]

get(args, store) ==
    IF Len(args) # 1 \/ ~Hashable(args[1]) THEN Outcome("TypeError", Unset, store)
    ELSE Outcome("ok", Lookup(store, args[1]), store)

set(args, store) ==
    IF Len(args) # 2 \/ ~Hashable(args[1]) THEN Outcome("TypeError", Unset, store)
    ELSE Outcome("ok", Integer(1), Put(store, args[1], args[2]))

\* delete that reports 1 whether or not the key was there
delete_always_one(args, store) ==
    IF Len(args) # 1 \/ ~Hashable(args[1]) THEN Outcome("TypeError", Unset, store)
    ELSE Outcome("ok", Integer(1), Remove(store, args[1]))

\* a delete that answers as the source does and keeps the entry
delete_keeps_entry(args, store) ==
    IF Len(args) # 1 \/ ~Hashable(args[1]) THEN Outcome("TypeError", Unset, store)
    ELSE IF args[1] \in DOMAIN store THEN Outcome("ok", Integer(1), store)
    ELSE Outcome("ok", Integer(0), store)

delete(args, store) ==
    IF Len(args) # 1 \/ ~Hashable(args[1]) THEN Outcome("TypeError", Unset, store)
    ELSE IF args[1] \in DOMAIN store THEN Outcome("ok", Integer(1), Remove(store, args[1]))
    ELSE Outcome("ok", Integer(0), store)

flush(args, store) ==
    IF Len(args) # 0 THEN Outcome("TypeError", Unset, store)
    ELSE Outcome("ok", Integer(Cardinality(DOMAIN store)), <<>>)

\* self._kv.get(keys), keys being the tuple of all arguments: a tuple equals
\* a key of the store only when that key is an Error (a namedtuple, that is
\* a tuple of one str) and the tuple holds that one str
TupleLookup(keys, store) ==
    IF Len(keys) = 1 /\ keys[1].t = "str" THEN Lookup(store, Error(keys[1].s)) ELSE None

mget(keys, store) ==
    IF keys = <<>> THEN Outcome("ok", List(<<>>), store)
    ELSE IF \E i \in 1..Len(keys) : ~Hashable(keys[i]) THEN Outcome("TypeError", Unset, store)
    ELSE Outcome("ok", List([i \in 1..Len(keys) |-> TupleLookup(keys, store)]), store)

RECURSIVE mset_failure_clears(_, _)
\* an mset that empties the store when a key cannot be stored
mset_failure_clears(items, store) ==
    IF Len(items) < 2 THEN Outcome("ok", Integer(1), store)
    ELSE IF ~Hashable(items[1]) THEN Outcome("TypeError", Unset, <<>>)
    ELSE mset_failure_clears(Drop(items, 2), Put(store, items[1], items[2]))

RECURSIVE mset(_, _)
\* for key, value in zip(items[::2], items[1::2]): self._kv[key] = value
mset(items, store) ==
    IF Len(items) < 2 THEN Outcome("ok", Integer(1), store)
    ELSE IF ~Hashable(items[1]) THEN Outcome("TypeError", Unset, store)
    ELSE mset(Drop(items, 2), Put(store, items[1], items[2]))

\* self._commands: the name each handler is registered under
get_commands ==
    [name \in {<<"G", "E", "T">>, <<"S", "E", "T">>, <<"D", "E", "L", "E", "T", "E">>,
               <<"F", "l", "U", "S", "H">>, <<"M", "G", "E", "T">>, <<"M", "S", "E", "T">>} |->
        CASE name = <<"G", "E", "T">> -> "get"
          [] name = <<"S", "E", "T">> -> "set"
          [] name = <<"D", "E", "L", "E", "T", "E">> -> "delete"
          [] name = <<"F", "l", "U", "S", "H">> -> "flush"
          [] name = <<"M", "G", "E", "T">> -> "mget"
          [] name = <<"M", "S", "E", "T">> -> "mset"]

\* self._commands[command](*data[1:])
Call(handler, args, store) ==
    CASE handler = "get" -> get(args, store)
      [] handler = "set" -> set(args, store)
      [] handler = "delete" -> delete(args, store)
      [] handler = "flush" -> flush(args, store)
      [] handler = "mget" -> mget(args, store)
      [] handler = "mset" -> mset(args, store)

MustBeListText ==
    <<"R", "e", "q", "u", "e", "s", "t", " ", "m", "u", "s", "t", " ", "b", "e", " ", "l",
      "i", "s", "t", " ", "o", "r", " ", "s", "i", "m", "p", "l", "e", " ", "s", "t", "r",
      "i", "n", "g">>
MissingCommandText ==
    <<"M", "i", "s", "s", "i", "n", "g", " ", "C", "o", "m", "m", "a", "n", "d">>
UnrecognizedText ==
    <<"U", "n", "r", "e", "c", "o", "g", "n", "i", "z", "e", "d", " ", "c", "o", "m", "m",
      "a", "n", "d", " ", ":", " ">>

\* f'{command}': a str as it is, a bytes object as its repr
Format(v) == IF v.t = "bytes" THEN BytesRepr(v.s) ELSE v.s

\* data.split() of a str or a bytes object: the tokens, of the same type
SplitTokens(d) == [i \in 1..Len(split(d.s)) |-> Value(d.t, split(d.s)[i], 0, <<>>)]

get_response(d, store) ==
    IF d.t # "list" /\ d.t \notin {"str", "bytes"}
    THEN Outcome("CommandError", Str(MustBeListText), store)
    ELSE LET tokens == IF d.t = "list" THEN d.items ELSE SplitTokens(d) IN
         IF tokens = <<>> THEN Outcome("CommandError", Str(MissingCommandText), store)
         ELSE IF tokens[1].t \notin {"str", "bytes"}
         THEN Outcome("AttributeError", Unset, store)
         ELSE LET command == Value(tokens[1].t, upper(tokens[1].s), 0, <<>>) IN
              IF command.t # "str" \/ command.s \notin DOMAIN get_commands
              THEN Outcome("CommandError", Str(UnrecognizedText \o Format(command)), store)
              ELSE Call(get_commands[command.s], Tail(tokens), store)

----------------------------------------------------------------------------
(* The connection handler.  Each connection is a greenlet; greenlets       *)
(* switch only inside the socket calls, so decoding one request, running   *)
(* its command and writing its response are each one step.                 *)

Conns == {"c1", "c2"}

\* an exception that leaves the loop takes the store with it
Dispatched_store_lost(d, store) ==
    LET o == get_response(d, store) IN
    IF o.k = "ok"
    THEN [pc |-> "writing", resp |-> o.resp, exc |-> "none", kv |-> o.kv]
    ELSE IF o.k = "CommandError"
    THEN [pc |-> "writing", resp |-> Error(o.resp.s), exc |-> "none", kv |-> o.kv]
    ELSE [pc |-> "crashed", resp |-> Unset, exc |-> o.k, kv |-> <<>>]

\* a CommandError sends the loop back to reading without a response
Dispatched_error_dropped(d, store) ==
    LET o == get_response(d, store) IN
    IF o.k = "ok"
    THEN [pc |-> "writing", resp |-> o.resp, exc |-> "none", kv |-> o.kv]
    ELSE IF o.k = "CommandError"
    THEN [pc |-> "reading", resp |-> Unset, exc |-> "none", kv |-> o.kv]
    ELSE [pc |-> "crashed", resp |-> Unset, exc |-> o.k, kv |-> o.kv]

\* what connection_handler does with a decoded request: the response to
\* write, or the exception that leaves the loop, and the store afterwards
Dispatched(d, store) ==
    LET o == get_response(d, store) IN
    IF o.k = "ok"
    THEN [pc |-> "writing", resp |-> o.resp, exc |-> "none", kv |-> o.kv]
    ELSE IF o.k = "CommandError"
    THEN [pc |-> "writing", resp |-> Error(o.resp.s), exc |-> "none", kv |-> o.kv]
    ELSE [pc |-> "crashed", resp |-> Unset, exc |-> o.k, kv |-> o.kv]

----------------------------------------------------------------------------
(* The wire format of the header comment, as a client writes its requests. *)

RECURSIVE Frame(_)
RECURSIVE Frames(_)
Frames(items) == IF items = <<>> THEN <<>> ELSE Frame(items[1]) \o Frames(Tail(items))

Frame(v) ==
    CASE v.t = "str" -> <<"+">> \o v.s \o CRLF
      [] v.t = "Error" -> <<"-">> \o v.s \o CRLF
      [] v.t = "int" -> <<":">> \o IntText(v.n) \o CRLF
      [] v.t = "bytes" -> <<"$">> \o IntText(Len(v.s)) \o CRLF \o v.s \o CRLF
      [] v.t = "list" -> <<"*">> \o IntText(Len(v.items)) \o CRLF \o Frames(v.items)
      [] v.t = "dict" -> <<"%">> \o IntText(Len(v.items) \div 2) \o CRLF \o Frames(v.items)
      [] v.t = "None" -> <<"$", "-", "1">> \o CRLF

RECURSIVE Join(_)
\* the tokens on one line, one space between them
Join(tokens) ==
    IF tokens = <<>> THEN <<>>
    ELSE IF Len(tokens) = 1 THEN tokens[1]
    ELSE tokens[1] \o <<" ">> \o Join(Tail(tokens))

\* a request as an array of simple strings, of binary values, or as one line
TextArray(tokens) == List([i \in 1..Len(tokens) |-> Str(tokens[i])])
BinaryArray(tokens) == List([i \in 1..Len(tokens) |-> Bytes(tokens[i])])
Line(tokens) == Str(Join(tokens))

GET == <<"G", "E", "T">>
SET == <<"S", "E", "T">>
DELETE == <<"D", "E", "L", "E", "T", "E">>
FLUSH == <<"F", "L", "U", "S", "H">>
MGET == <<"M", "G", "E", "T">>
MSET == <<"M", "S", "E", "T">>
FOO == <<"F", "O", "O">>

\* the requests the clients send
Requests ==
    { TextArray(<<SET, <<"x">>, <<"1">>>>),
      TextArray(<<SET, <<"x">>, <<>>>>),
      BinaryArray(<<SET, <<"x">>, <<"1">>>>),
      Line(<<GET, <<"x">>>>),
      Line(<<DELETE, <<"x">>>>),
      Line(<<FLUSH>>),
      Line(<<<<"f", "l", "u", "s", "h">>>>),
      Line(<<MSET, <<"x">>, <<"1">>, <<"y">>, <<"2">>>>),
      Line(<<MGET, <<"x">>, <<"y">>, <<"z">>>>),
      Line(<<FOO>>) }

\* the byte strings the clients send: the requests, and a frame with a tag
\* byte that is none of the six
InputFrames == {Frame(r) : r \in Requests} \cup {<<"!">> \o CRLF}

MaxSends == 3

----------------------------------------------------------------------------
(* What the requests issued so far should have left in the store: SET and  *)
(* MSET bind, DELETE unbinds, FLUSH unbinds everything.  This is the       *)
(* command surface as documented, kept beside the store to compare the     *)
(* two; the server never reads it.                                        *)

\* the tokens of a request whose tokens are all text, <<>> for any other
TextTokens(d) ==
    IF d.t = "str" THEN SplitTokens(d)
    ELSE IF d.t = "list" /\ \A i \in 1..Len(d.items) : d.items[i].t = "str" THEN d.items
    ELSE <<>>

\* the request names the command, in any letter case, with n arguments
IsCommand(d, name, n) ==
    LET tokens == TextTokens(d) IN
    Len(tokens) = n + 1 /\ upper(tokens[1].s) = name

Args(d) == Tail(TextTokens(d))

RECURSIVE PutPairs(_, _)
PutPairs(items, store) ==
    IF Len(items) < 2 THEN store
    ELSE PutPairs(Drop(items, 2), Put(store, items[1], items[2]))

IdealApply(d, store) ==
    IF IsCommand(d, SET, 2) THEN Put(store, Args(d)[1], Args(d)[2])
    ELSE IF IsCommand(d, DELETE, 1) THEN Remove(store, Args(d)[1])
    ELSE IF IsCommand(d, FLUSH, 0) THEN <<>>
    ELSE IF TextTokens(d) # <<>> /\ upper(TextTokens(d)[1].s) = MSET THEN PutPairs(Args(d), store)
    ELSE store

----------------------------------------------------------------------------
(* Actions *)

\* a client writes one request on its connection, after it has taken the
\* response to its previous one from the stream
Send(c, frame) ==
    /\ nsent < MaxSends
    /\ ~eof[c]
    /\ pc[c] = "reading"
    /\ inbuf[c] = <<>>
    /\ inbuf' = [inbuf EXCEPT ![c] = frame]
    /\ sent' = [sent EXCEPT ![c] = <<>>]
    /\ nsent' = nsent + 1
    /\ UNCHANGED <<kv, eof, pc, request, resp, exc, ideal, kv0, race, ndecoded, nwritten>>
    /\ UNCHANGED codecVars

\* a client closes its side of the connection
ClientClose(c) ==
    /\ ~eof[c]
    /\ eof' = [eof EXCEPT ![c] = TRUE]
    /\ UNCHANGED <<kv, inbuf, pc, request, resp, exc, sent, nsent, ideal, kv0, race,
                   ndecoded, nwritten>>
    /\ UNCHANGED codecVars

\* data = self._protocol.handle_request(socket_file), Disconnect ends the loop
Read(c) ==
    /\ pc[c] = "reading"
    /\ LET r == handle_request(inbuf[c], eof[c]) IN
       /\ r.k # "block"
       /\ IF r.k = "ok"
          THEN /\ request' = [request EXCEPT ![c] = r.v]
               /\ inbuf' = [inbuf EXCEPT ![c] = r.rest]
               /\ pc' = [pc EXCEPT ![c] = "dispatching"]
               /\ exc' = exc
               /\ ndecoded' = [ndecoded EXCEPT ![c] = @ + 1]
          ELSE /\ request' = request
               /\ inbuf' = [inbuf EXCEPT ![c] = <<>>]
               /\ pc' = [pc EXCEPT ![c] = IF r.k = "Disconnect" THEN "closed" ELSE "crashed"]
               /\ exc' = [exc EXCEPT ![c] = IF r.k = "Disconnect" THEN "none" ELSE r.k]
               /\ ndecoded' = ndecoded
    /\ UNCHANGED <<kv, eof, resp, sent, nsent, ideal, kv0, race, nwritten>>
    /\ UNCHANGED codecVars

\* resp = self.get_response(data), a CommandError becomes an Error response
Dispatch(c) ==
    /\ pc[c] = "dispatching"
    /\ LET o == Dispatched(request[c], kv) IN
       /\ pc' = [pc EXCEPT ![c] = o.pc]
       /\ resp' = [resp EXCEPT ![c] = o.resp]
       /\ exc' = [exc EXCEPT ![c] = o.exc]
       /\ kv' = o.kv
    /\ ideal' = IdealApply(request[c], ideal)
    /\ UNCHANGED <<inbuf, eof, request, sent, nsent, kv0, race, ndecoded, nwritten>>
    /\ UNCHANGED codecVars

\* self._protocol.write_response(socket_file, resp): the whole response is
\* built in a private buffer, then written and flushed.  The loop then
\* starts over: data and resp are assigned again before they are read, so
\* they count as unassigned from here on.
write_response(c) ==
    /\ pc[c] = "writing"
    /\ LET w == _write(resp[c]) IN
       IF w.k = "ok"
       THEN /\ sent' = [sent EXCEPT ![c] = w.out]
            /\ pc' = [pc EXCEPT ![c] = "reading"]
            /\ exc' = exc
            /\ nwritten' = [nwritten EXCEPT ![c] = @ + 1]
       ELSE /\ sent' = sent
            /\ pc' = [pc EXCEPT ![c] = "crashed"]
            /\ exc' = [exc EXCEPT ![c] = w.k]
            /\ nwritten' = nwritten
    /\ request' = [request EXCEPT ![c] = Unset]
    /\ resp' = [resp EXCEPT ![c] = Unset]
    /\ UNCHANGED <<kv, inbuf, eof, nsent, ideal, kv0, race, ndecoded>>
    /\ UNCHANGED codecVars

CodecOff ==
    /\ val = Unset
    /\ wire = <<>>
    /\ calls = <<>>
    /\ decoded = Block
    /\ phase = "off"

\* the server after construction, with its connections accepted
ServerInit ==
    /\ kv = <<>>
    /\ inbuf = [c \in Conns |-> <<>>]
    /\ eof = [c \in Conns |-> FALSE]
    /\ pc = [c \in Conns |-> "reading"]
    /\ request = [c \in Conns |-> Unset]
    /\ resp = [c \in Conns |-> Unset]
    /\ exc = [c \in Conns |-> "none"]
    /\ sent = [c \in Conns |-> <<>>]
    /\ nsent = 0
    /\ ideal = <<>>
    /\ kv0 = <<>>
    /\ race = <<>>
    /\ ndecoded = [c \in Conns |-> 0]
    /\ nwritten = [c \in Conns |-> 0]

Init == ServerInit /\ CodecOff

Next ==
    \/ \E c \in Conns : \E frame \in InputFrames : Send(c, frame)
    \/ \E c \in Conns : ClientClose(c)
    \/ \E c \in Conns : Read(c)
    \/ \E c \in Conns : Dispatch(c)
    \/ \E c \in Conns : write_response(c)

Spec == Init /\ [][Next]_vars

----------------------------------------------------------------------------
(* Two connections race: one has sent SET k v, the other DELETE k, and the *)
(* two handlers run in any interleaving, from any store of a few entries.  *)

RaceKeys == {<<"x">>, <<"y">>}
RaceValues == {<<"1">>, <<"2">>}

\* the stores earlier SET requests can have left over these keys and values
RaceStores ==
    UNION {[{Str(k) : k \in ks} -> {Str(v) : v \in RaceValues}] : ks \in SUBSET RaceKeys}

InitRace ==
    /\ \E store \in RaceStores :
          /\ kv = store
          /\ kv0 = store
          /\ ideal = store
    /\ \E k \in RaceKeys : \E v \in RaceValues :
          /\ race = <<k, v>>
          /\ inbuf = [c \in Conns |->
                        IF c = "c1" THEN Frame(TextArray(<<SET, k, v>>))
                        ELSE Frame(Line(<<DELETE, k>>))]
    /\ eof = [c \in Conns |-> FALSE]
    /\ pc = [c \in Conns |-> "reading"]
    /\ request = [c \in Conns |-> Unset]
    /\ resp = [c \in Conns |-> Unset]
    /\ exc = [c \in Conns |-> "none"]
    /\ sent = [c \in Conns |-> <<>>]
    /\ nsent = 2
    /\ ndecoded = [c \in Conns |-> 0]
    /\ nwritten = [c \in Conns |-> 0]
    /\ CodecOff

NextRace ==
    \/ \E c \in Conns : ClientClose(c)
    \/ \E c \in Conns : Read(c)
    \/ \E c \in Conns : Dispatch(c)
    \/ \E c \in Conns : write_response(c)

SpecRace == InitRace /\ [][NextRace]_vars

----------------------------------------------------------------------------
(* Requests at the edges of the command surface: each connection has sent  *)
(* one of them, cut short or not, and the handlers run in any interleaving *)
(* from a store of a few entries.                                          *)

\* the frame without its last n bytes, as it stands when the stream ends early
Cut(frame, n) == Take(frame, Len(frame) - n)

OddMset == Line(<<MSET, <<"x">>, <<"1">>, <<"y">>>>)
EvenMset == Line(<<MSET, <<"x">>, <<"2">>, <<"y">>, <<"1">>>>)
ListKeyMset == List(<<Str(MSET), Str(<<"x">>), Str(<<"2">>), List(<<>>), Str(<<"1">>)>>)
NoKeyGet == Line(<<GET>>)
ListKeyGet == List(<<Str(GET), List(<<Str(<<"x">>)>>)>>)
IntegerCommand == List(<<Integer(5)>>)
NullSet == List(<<Str(SET), Str(<<"x">>), None>>)
BinarySet == List(<<Str(SET), Str(<<"x">>), Bytes(<<"a", "b", "c">>)>>)
NegativeCount == <<"*", "-", "1">> \o CRLF

\* frames whose last bytes never arrive
CutFrames ==
    { Cut(Frame(BinarySet), 2), Cut(Frame(BinarySet), 4),
      Cut(Frame(TextArray(<<SET, <<"x">>, <<"2">>>>)), 4),
      Cut(Frame(Dict(<<Str(SET), Str(<<"x">>)>>)), 4) }

EdgeFrames ==
    { Frame(r) : r \in { OddMset, EvenMset, ListKeyMset, NoKeyGet, ListKeyGet, IntegerCommand,
                         NullSet, Line(<<GET, <<"x">>>>), Line(<<MGET, <<"x">>>>),
                         Line(<<DELETE, <<"x">>>>) } }
       \cup CutFrames \cup {NegativeCount, <<"!">> \o CRLF}

EdgeStores ==
    { <<>>, Put(<<>>, Str(<<"x">>), Str(<<"1">>)),
      Put(Put(<<>>, Str(<<"x">>), Str(<<"1">>)), Str(<<"y">>), Str(<<"2">>)) }

InitEdge ==
    /\ \E store \in EdgeStores :
          /\ kv = store
          /\ kv0 = store
          /\ ideal = store
    /\ inbuf \in [Conns -> EdgeFrames]
    /\ race = <<>>
    /\ eof = [c \in Conns |-> FALSE]
    /\ pc = [c \in Conns |-> "reading"]
    /\ request = [c \in Conns |-> Unset]
    /\ resp = [c \in Conns |-> Unset]
    /\ exc = [c \in Conns |-> "none"]
    /\ sent = [c \in Conns |-> <<>>]
    /\ nsent = 2
    /\ ndecoded = [c \in Conns |-> 0]
    /\ nwritten = [c \in Conns |-> 0]
    /\ CodecOff

NextEdge ==
    \/ \E c \in Conns : ClientClose(c)
    \/ \E c \in Conns : Read(c)
    \/ \E c \in Conns : Dispatch(c)
    \/ \E c \in Conns : write_response(c)

SpecEdge == InitEdge /\ [][NextEdge]_vars

----------------------------------------------------------------------------
(* The codec alone: a value is encoded by _write and the bytes are decoded *)
(* by handle_request; or a peer's frame of a value is decoded.             *)

Leaves ==
    { Str(<<"a">>), Str(<<>>), Bytes(<<>>), Bytes(<<"a", "b">>), Integer(12), Integer(0 - 3),
      None, Error(<<"e">>) }

PairHeads == {Str(<<"a">>), None}

\* the values one level deeper than those of vs
Nest(vs) ==
    vs \cup {List(<<>>)}
       \cup {List(<<v>>) : v \in vs}
       \cup {List(<<h, v>>) : h \in PairHeads, v \in vs}
       \cup {Dict(<<h, v>>) : h \in PairHeads, v \in vs}

MaxDepth == 2

RECURSIVE ValuesOfDepth(_)
ValuesOfDepth(d) == IF d = 0 THEN Leaves ELSE Nest(ValuesOfDepth(d - 1))

CodecValues == ValuesOfDepth(MaxDepth)

\* a value of a type _write has no branch for, such as a float
Object == Value("object", <<>>, 0, <<>>)

\* values _write fails on, at once or after it has written some bytes
Unwritable ==
    { Object, List(<<Str(<<"a">>), Object>>), List(<<List(<<Integer(12), Object>>)>>),
      Dict(<<Str(<<"a">>), Object>>) }

\* frames of a peer that are not the frame of a value
RawFrames == {NegativeCount, <<"*", "-", "2">> \o CRLF \o <<"+", "a">> \o CRLF}

InitCodec ==
    /\ ServerInit
    /\ \/ val \in CodecValues \cup Unwritable /\ phase = "value" /\ wire = <<>>
       \/ val \in CodecValues /\ phase = "received" /\ wire = Frame(val)
       \/ val = Unset /\ phase = "received" /\ wire \in RawFrames
    /\ calls = <<>>
    /\ decoded = Block

RECURSIVE Concat(_)
\* the bytes of the chunks, in order
Concat(chunks) == IF chunks = <<>> THEN <<>> ELSE chunks[1] \o Concat(Tail(chunks))

\* a write_response that writes to the socket file as it goes
SocketWrites_unbuffered(data) == <<_write(data).out>>

\* write_response: buf = BytesIO(), self._write(buf, data), then one
\* socket_file.write(buf.getvalue()); an exception of _write leaves before it
SocketWrites(data) ==
    LET w == _write(data) IN
    IF w.k = "ok" THEN <<w.out>> ELSE <<>>

\* self.write_response(socket_file, val) on an empty stream
Encode ==
    /\ phase = "value"
    /\ calls' = SocketWrites(val)
    /\ wire' = Concat(SocketWrites(val))
    /\ phase' = IF _write(val).k = "ok" THEN "encoded" ELSE "failed"
    /\ UNCHANGED <<val, decoded>>
    /\ UNCHANGED serverVars

\* self.handle_request(socket_file) on a stream holding exactly the bytes
Decode ==
    /\ phase \in {"encoded", "received"}
    /\ decoded' = handle_request(wire, TRUE)
    /\ phase' = IF phase = "encoded" THEN "decoded" ELSE "parsed"
    /\ UNCHANGED <<val, wire, calls>>
    /\ UNCHANGED serverVars

NextCodec == Encode \/ Decode

SpecCodec == InitCodec /\ [][NextCodec]_vars

----------------------------------------------------------------------------
(* Claims *)

\* connection c runs the command of its request / writes its response in this step
DispatchStep(c) == pc[c] = "dispatching" /\ pc'[c] # "dispatching"
WriteStep(c) == pc[c] = "writing" /\ pc'[c] # "writing"

\* the command name of a request of text tokens, upper-cased
CommandName(d) == IF TextTokens(d) = <<>> THEN <<>> ELSE upper(TextTokens(d)[1].s)

\* the six commands of the command surface
CommandNames == {GET, SET, DELETE, FLUSH, MGET, MSET}

\* C1: GET k returns the value of the most recent SET k v (or MSET pair
\* for k) not followed by DELETE k or FLUSH, and absent otherwise; SET
\* returns 1 and binds k to v whatever was there.
C1_GetReturnsLastSet ==
    [][\A c \in Conns : DispatchStep(c) =>
          /\ IsCommand(request[c], GET, 1) =>
                /\ pc'[c] = "writing"
                /\ resp'[c] = Lookup(ideal, Args(request[c])[1])
          /\ IsCommand(request[c], SET, 2) =>
                /\ pc'[c] = "writing"
                /\ resp'[c] = Integer(1)
                /\ kv' = Put(kv, Args(request[c])[1], Args(request[c])[2])]_vars

\* C2: MGET k1 ... kn returns n entries in the order of the keys, entry i
\* the value stored under ki, or null when ki is missing.
C2_MgetPerKey ==
    [][\A c \in Conns : (DispatchStep(c) /\ CommandName(request[c]) = MGET) =>
          /\ pc'[c] = "writing"
          /\ resp'[c] = List([i \in 1..Len(Args(request[c])) |->
                                Lookup(kv, Args(request[c])[i])])
          /\ kv' = kv]_vars

\* C3: a FLUSH request, the name in any letter case, answers the number of
\* entries that were in the store and leaves the store empty.
C3_FlushDispatched ==
    [][\A c \in Conns : (DispatchStep(c) /\ IsCommand(request[c], FLUSH, 0)) =>
          /\ pc'[c] = "writing"
          /\ resp'[c] = Integer(Cardinality(DOMAIN kv))
          /\ kv' = <<>>]_vars

\* the request is an array of binary values that names a registered command
BinaryRequest(d) ==
    /\ d.t = "list"
    /\ d.items # <<>>
    /\ \A i \in 1..Len(d.items) : d.items[i].t = "bytes"
    /\ upper(d.items[1].s) \in DOMAIN get_commands

\* C4: a request array of binary tokens is dispatched to the command it
\* names as the same request with a simple-string command token is, and is
\* not answered with an unrecognized-command error.
C4_BinaryTokensDispatched ==
    [][\A c \in Conns : (DispatchStep(c) /\ BinaryRequest(request[c])) =>
          /\ ~(resp'[c].t = "Error" /\ Contains(resp'[c].s, UnrecognizedText))
          /\ [pc |-> pc'[c], resp |-> resp'[c], exc |-> exc'[c], kv |-> kv']
                = Dispatched(List(<<Str(request[c].items[1].s)>> \o Tail(request[c].items)), kv)]_vars

\* the request is an array of simple strings without whitespace in them
TokenArray(d) ==
    /\ d.t = "list"
    /\ \A i \in 1..Len(d.items) :
          /\ d.items[i].t = "str"
          /\ \A j \in 1..Len(d.items[i].s) : ~IsSpace(d.items[i].s[j])

NonEmptyTokens(d) == \A i \in 1..Len(d.items) : d.items[i].s # <<>>

\* the same tokens sent as one line, as the server decodes it
LineForm(d) ==
    handle_request(Frame(Str(Join([i \in 1..Len(d.items) |-> d.items[i].s]))), FALSE)

\* this step of c has the response, exception and resulting store that the
\* line form of its request has from the same store
SameAsLine(c) ==
    /\ LineForm(request[c]).k = "ok"
    /\ LineForm(request[c]).rest = <<>>
    /\ [pc |-> pc'[c], resp |-> resp'[c], exc |-> exc'[c], kv |-> kv']
          = Dispatched(LineForm(request[c]).v, kv)

\* C5 as stated: an array of simple strings and the same tokens on one
\* line give the same response and the same store, for all tokens without
\* whitespace.
C5_ArrayEqualsLine ==
    [][\A c \in Conns : (DispatchStep(c) /\ TokenArray(request[c])) => SameAsLine(c)]_vars

\* C5 amended: an array of simple strings and the same tokens on one line
\* give the same response and the same store, for all tokens that are not
\* empty and hold no whitespace.
C5_ArrayEqualsLineNonEmpty ==
    [][\A c \in Conns :
          (DispatchStep(c) /\ TokenArray(request[c]) /\ NonEmptyTokens(request[c]))
              => SameAsLine(c)]_vars

\* an array of three non-empty tokens was dispatched and changed the store
C5_Witness ==
    \E c \in Conns :
        /\ pc[c] = "writing"
        /\ TokenArray(request[c])
        /\ NonEmptyTokens(request[c])
        /\ Len(request[c].items) = 3
        /\ resp[c] = Integer(1)
        /\ request[c].items[2] \in DOMAIN kv

\* the request names a command that is none of the six
UnknownCommand(d) == TextTokens(d) # <<>> /\ CommandName(d) \notin CommandNames

\* C6: an unknown command leaves the store as it is and is answered on the
\* wire with an error whose message holds the command name; the handler
\* then reads the next request.
C6_UnknownCommandReported ==
    [][\A c \in Conns : UnknownCommand(request[c]) =>
          /\ DispatchStep(c) => (kv' = kv /\ pc'[c] = "writing")
          /\ WriteStep(c) =>
                /\ pc'[c] = "reading"
                /\ handle_request(sent'[c], TRUE).k = "ok"
                /\ handle_request(sent'[c], TRUE).v.t = "Error"
                /\ Contains(handle_request(sent'[c], TRUE).v.s, CommandName(request[c]))]_vars

\* C7: no CommandError ends a connection's loop.
C7_CommandErrorRecoverable ==
    \A c \in Conns : ~(pc[c] = "crashed" /\ exc[c] = "CommandError")

\* C8: decoding the bytes _write produces for a value gives the value back
\* and uses up exactly those bytes.
C8_RoundTrip ==
    phase = "decoded" => decoded = Result("ok", val, <<>>)

NullWire == <<"$", "-", "1", CR, LF>>
EmptyWire == <<"$", "0", CR, LF, CR, LF>>

\* C9: absent is written as $-1 CR LF and read back as absent; a
\* zero-length byte string is written as $0 CR LF CR LF and that is read
\* back as a zero-length byte string.
C9_NullAndEmptyDistinct ==
    /\ (phase \in {"encoded", "decoded"} /\ val = None) => wire = NullWire
    /\ (phase \in {"decoded", "parsed"} /\ wire = NullWire) => decoded = Result("ok", None, <<>>)
    /\ (phase \in {"encoded", "decoded"} /\ val = Bytes(<<>>)) => wire = EmptyWire
    /\ (phase \in {"decoded", "parsed"} /\ wire = EmptyWire)
          => decoded = Result("ok", Bytes(<<>>), <<>>)

\* the value of the response connection c has been sent
Answer(c) == handle_request(sent[c], TRUE).v

\* C10: SET k v and DELETE k racing on two connections leave the store of
\* one of the two serial orders, with the return values of that order, and
\* the store is never anything but the initial one or one of these.
C10_SerialOutcome ==
    LET k == Str(race[1])
        v == Str(race[2])
    IN /\ kv \in {kv0, Put(kv0, k, v), Remove(kv0, k)}
       /\ (sent["c1"] # <<>> /\ sent["c2"] # <<>>) =>
             \/ /\ kv = Remove(kv0, k)
                /\ Answer("c1") = Integer(1)
                /\ Answer("c2") = Integer(1)
             \/ /\ kv = Put(kv0, k, v)
                /\ Answer("c1") = Integer(1)
                /\ Answer("c2") = Integer(IF k \in DOMAIN kv0 THEN 1 ELSE 0)

\* both were answered, DELETE ran first on a key that was not there and the
\* SET after it survived
C10_Witness ==
    /\ sent["c1"] # <<>>
    /\ sent["c2"] # <<>>
    /\ Answer("c2") = Integer(0)
    /\ Str(race[1]) \in DOMAIN kv

\* C11: DELETE k returns 1 and removes the entry of k when k is present,
\* and returns 0 and leaves the store as it is when k is absent; either
\* way k is absent afterwards, so the next DELETE k returns 0.
C11_DeleteReturns ==
    [][\A c \in Conns : (DispatchStep(c) /\ IsCommand(request[c], DELETE, 1)) =>
          LET k == Args(request[c])[1] IN
          /\ pc'[c] = "writing"
          /\ k \notin DOMAIN kv'
          /\ IF k \in DOMAIN kv
             THEN /\ resp'[c] = Integer(1)
                  /\ kv' = Remove(kv, k)
             ELSE /\ resp'[c] = Integer(0)
                  /\ kv' = kv]_vars

\* a DELETE of a present key has been answered 1 and its entry is gone
C11_Witness ==
    \E c \in Conns :
       /\ pc[c] = "writing"
       /\ IsCommand(request[c], DELETE, 1)
       /\ resp[c] = Integer(1)
       /\ Args(request[c])[1] \notin DOMAIN kv
       /\ kv # <<>>

\* the handler of connection c ends in this step, closed or by an exception
Ended == {"closed", "crashed"}
EndStep(c) == pc[c] \notin Ended /\ pc'[c] \in Ended

\* nothing of connection d changes in this step
Untouched(d) ==
    /\ pc'[d] = pc[d]
    /\ inbuf'[d] = inbuf[d]
    /\ eof'[d] = eof[d]
    /\ request'[d] = request[d]
    /\ resp'[d] = resp[d]
    /\ exc'[d] = exc[d]
    /\ sent'[d] = sent[d]
    /\ ndecoded'[d] = ndecoded[d]
    /\ nwritten'[d] = nwritten[d]

\* request d is an array that names MSET
NamesMset(d) ==
    /\ d.t = "list"
    /\ d.items # <<>>
    /\ d.items[1].t = "str"
    /\ upper(d.items[1].s) = MSET

\* the stores an MSET request leaves when it stops after some of its pairs
PairPrefixStores(d, store) ==
    {PutPairs(Take(Tail(d.items), 2 * n), store) : n \in 0..((Len(d.items) - 1) \div 2)}

NegativeArray(w) == Len(w) >= 2 /\ w[1] = "*" /\ w[2] = "-"

\* C13: decoding an array frame with a negative count fails with an error
\* and returns no value; a count of 0 gives the empty array and a count
\* of n > 0 gives the n values that follow, in stream order.
C13_ArrayCounts ==
    /\ (phase = "parsed" /\ NegativeArray(wire)) => decoded.k \notin {"ok", "block"}
    /\ (phase = "parsed" /\ val.t = "list") => decoded = Result("ok", val, <<>>)

\* C14: MSET with an odd number of arguments is answered with an error
\* value; MSET with an even number stores every pair and returns 1.
C14_MsetPairs ==
    [][\A c \in Conns : (DispatchStep(c) /\ CommandName(request[c]) = MSET) =>
          /\ pc'[c] = "writing"
          /\ IF Len(Args(request[c])) % 2 = 1
             THEN resp'[c].t = "Error"
             ELSE /\ resp'[c] = Integer(1)
                  /\ kv' = PutPairs(Args(request[c]), kv)]_vars

\* the command of request d fails with an exception that is no CommandError
HandlerFails(d, store) == get_response(d, store).k \notin {"ok", "CommandError"}

\* C15: a failure in a command handler that is no CommandError (wrong
\* number of arguments, an array used as a key, a command token that is no
\* text) is answered with an error value, and the connection goes on to
\* write it and read the next request.
C15_FailuresNormalized ==
    [][\A c \in Conns : (DispatchStep(c) /\ HandlerFails(request[c], kv)) =>
          /\ pc'[c] = "writing"
          /\ resp'[c].t = "Error"]_vars

\* connection c leaves handle_request in this step
ReadStep(c) == pc[c] = "reading" /\ pc'[c] # "reading"

\* C16: a request frame cut short by the end of the stream is never
\* dispatched: the read ends the handler, no command runs on the part
\* that arrived and the store stays as it is.
C16_CutFrameNotDispatched ==
    [][\A c \in Conns : (ReadStep(c) /\ inbuf[c] \in CutFrames) =>
          /\ pc'[c] \in Ended
          /\ kv' = kv]_vars

\* C17: write_response hands the stream the whole serialized value in one
\* write; when serializing fails inside a nested value, nothing is written
\* and no byte of the part serialized so far is on the stream.
C17_ResponseOneUnit ==
    /\ phase \in {"encoded", "decoded"} => (calls = <<_write(val).out>> /\ wire = _write(val).out)
    /\ phase = "failed" => (calls = <<>> /\ wire = <<>>)

\* serializing a list has failed after some of its bytes were in the buffer
C17_Witness ==
    /\ phase = "failed"
    /\ val.t = "list"
    /\ _write(val).out # <<>>
    /\ wire = <<>>

\* the counts of connection c fit the place its handler is at
Alternates(c) ==
    /\ nwritten[c] <= ndecoded[c]
    /\ ndecoded[c] <= nwritten[c] + 1
    /\ pc[c] \in {"dispatching", "writing"} => (ndecoded[c] = nwritten[c] + 1 /\ request[c] # Unset)
    /\ pc[c] \in {"reading", "closed"} => ndecoded[c] = nwritten[c]

\* C18: on every connection reads and writes alternate: the i-th response
\* written is the result of the i-th request decoded, none is written
\* before its request is decoded, responses never outnumber decoded
\* requests, and a handler closed by a disconnect has answered them all.
C18_Alternation ==
    [][\A c \in Conns :
          /\ Alternates(c)'
          /\ DispatchStep(c) =>
                /\ request'[c] = request[c]
                /\ pc'[c] = "writing" => resp'[c] = Dispatched(request[c], kv).resp
          /\ (WriteStep(c) /\ pc'[c] = "reading") =>
                /\ sent'[c] = _write(resp[c]).out
                /\ nwritten'[c] = ndecoded[c]
          /\ nwritten'[c] # nwritten[c] => WriteStep(c)]_vars

\* a handler has answered two requests and was then closed by a disconnect
C18_Witness ==
    \E c \in Conns :
       /\ pc[c] = "closed"
       /\ ndecoded[c] = 2
       /\ nwritten[c] = 2

\* the request connection c dispatches in this step ends in a success response
Succeeds(c) == pc'[c] = "writing" /\ resp'[c].t # "Error"

\* C19 as stated: a request that ends in an error value or in an uncaught
\* failure leaves the store as it was; a failing MSET stores no pair.
C19_FailureKeepsStore ==
    [][\A c \in Conns : (DispatchStep(c) /\ ~Succeeds(c)) => kv' = kv]_vars

\* C19, amended: as above, but an MSET ended by an uncaught failure on
\* one of its pairs has stored the pairs before that one.
C19_FailureKeepsStoreButMset ==
    [][\A c \in Conns : (DispatchStep(c) /\ ~Succeeds(c)) =>
          \/ kv' = kv
          \/ /\ pc'[c] = "crashed"
             /\ NamesMset(request[c])
             /\ kv' \in PairPrefixStores(request[c], kv)]_vars

\* an MSET has failed on its second pair and an error value is on its way
\* to the other connection, with the store as the first pair left it
C19_Witness ==
    \E c \in Conns : \E d \in Conns \ {c} :
       /\ pc[c] = "crashed"
       /\ NamesMset(request[c])
       /\ kv = Put(kv0, Str(<<"x">>), Str(<<"2">>))
       /\ kv # kv0
       /\ pc[d] = "writing"
       /\ resp[d].t = "Error"

\* the keys the requests use
StoreKeys == {Str(<<"x">>), Str(<<"y">>)}

\* C20: in every store the program reaches, GET k returns null exactly
\* when k is not in the store, which is when DELETE k returns 0 and
\* FLUSH does not count k.
C20_NullIffAbsent ==
    \A k \in StoreKeys :
       /\ get(<<k>>, kv).resp = None <=> k \notin DOMAIN kv
       /\ delete(<<k>>, kv).resp = Integer(0) <=> k \notin DOMAIN kv
       /\ flush(<<>>, kv).resp = flush(<<>>, Remove(kv, k)).resp <=> k \notin DOMAIN kv

===============================================================================
